---------------------------- MODULE Spec2Model ----------------------------
(***************************************************************************)
(* Model of src/src/quantities.hxx (namespace quantities): the per-event   *)
(* lambdas that the quantity functions register with df.Define.            *)
(*                                                                         *)
(* Every lambda is a pure function of its per-event column values and of   *)
(* the captured constant `position`.  Each is an operator returning an     *)
(* outcome: Ret(v) when the lambda returns v, Throw when it leaves by the  *)
(* std::out_of_range exception of the checked RVec::at(pos).               *)
(*                                                                         *)
(* Reals (float, double) are fixed-point integers: the integer n stands    *)
(* for n / Scale.  Division and square root round down.                    *)
(***************************************************************************)
EXTENDS Integers, Sequences, FiniteSets

VARIABLES
    fn,     \* name of the quantity whose lambda was called ("none": not yet called)
    args,   \* the arguments of that call: a record of position and column values
    out,    \* the outcome of that call
    rows,   \* the events of the dataframe (event loop model), one record per event
    cols    \* cols[e][q]: the outcome stored in output column q for event e

vars == <<fn, args, out, rows, cols>>

---------------------------------------------------------------------------
(* Bounds of the model *)

\* Longest attribute / association array of an event.
MaxLen == 2

\* Number of directions (phi values) the four-vectors are drawn from.
NDirs == 3

\* Number of events in the dataframe of the event loop model.
NEvents == 2

---------------------------------------------------------------------------
(* SentinelPolicy: defaults.hxx *)

\* Fixed-point unit: the integer n stands for the real n / Scale.
Scale == 100

default_int == -10

\* default_float is -10.0
default_float == -10 * Scale

default_pdgid == -999

default_uchar == 250

---------------------------------------------------------------------------
(* Outcomes of a lambda *)

Ret(v) == [kind |-> "return", val |-> v]

Throw == [kind |-> "throw", val |-> "std::out_of_range"]

NoOutcome == [kind |-> "none"]

---------------------------------------------------------------------------
(* ROOT::RVec access, 0-based index i into the 1-based sequence vec *)

\* vec.at(pos) returns a value exactly when pos < size (pos is unsigned:
\* a negative int converts to a value above every size); otherwise it throws.
HasAt(vec, pos) == 0 <= pos /\ pos < Len(vec)

\* A mutant of At: index 0 is taken for "no entry".
At_zero_invalid(vec, i, fallback) ==
    IF 0 < i /\ i < Len(vec) THEN vec[i + 1] ELSE fallback

\* vec.at(i, fallback): the element, or fallback when i is outside the array.
At(vec, i, fallback) ==
    IF 0 <= i /\ i < Len(vec) THEN vec[i + 1] ELSE fallback

\* The common shape of the single-hop lambdas:
\*     const int index = pair.at(position);
\*     return column.at(index, default);
Lookup(position, pair, column, default) ==
    IF ~HasAt(pair, position)
    THEN Throw
    ELSE LET index == pair[position + 1]
         IN  Ret(At(column, index, default))

dxy(position, pair, column) == Lookup(position, pair, column, default_float)

dz(position, pair, column) == Lookup(position, pair, column, default_float)

charge(position, pair, column) == Lookup(position, pair, column, default_int)

isolation(position, pair, column) == Lookup(position, pair, column, default_float)

pdgid(position, pair, column) == Lookup(position, pair, column, default_pdgid)

tau_decaymode(position, pair, column) == Lookup(position, pair, column, default_int)

tau_genmatch(position, pair, column) == Lookup(position, pair, column, default_uchar)

\* A mutant of tau_matching_jet_pt: the tau index is used as the jet index,
\* the association hop is skipped.
tau_matching_jet_pt_no_hop(position, pair, taujets, jetpt) ==
    IF ~HasAt(pair, position)
    THEN Throw
    ELSE LET tauindex == pair[position + 1]
         IN  Ret(At(jetpt, tauindex, default_float))

tau_matching_jet_pt(position, pair, taujets, jetpt) ==
    IF ~HasAt(pair, position)
    THEN Throw
    ELSE LET tauindex == pair[position + 1]
             jetindex == At(taujets, tauindex, -1)
         IN  Ret(At(jetpt, jetindex, default_float))

\* A mutant of tau_matching_genjet_pt: a tau without a jet falls back to jet 0.
tau_matching_genjet_pt_fallback0(position, pair, taujets, genjets, genjetpt) ==
    IF ~HasAt(pair, position)
    THEN Throw
    ELSE LET tauindex == pair[position + 1]
             jetindex == At(taujets, tauindex, 0)
             genjetindex == At(genjets, jetindex, -1)
         IN  Ret(At(genjetpt, genjetindex, default_float))

tau_matching_genjet_pt(position, pair, taujets, genjets, genjetpt) ==
    IF ~HasAt(pair, position)
    THEN Throw
    ELSE LET tauindex == pair[position + 1]
             jetindex == At(taujets, tauindex, -1)
             genjetindex == At(genjets, jetindex, -1)
         IN  Ret(At(genjetpt, genjetindex, default_float))

---------------------------------------------------------------------------
(* Inputs of the lookups *)

Positions == {0, 1}

\* Index values stored in pairs and association arrays; -1 is "no association".
IdxVals == -1 .. 1

SeqsUpTo(S, n) == UNION {[1 .. k -> S] : k \in 0 .. n}

\* Index pairs, including pairs with fewer than two entries.
Pairs == SeqsUpTo(IdxVals, 2)

AssocArrays == SeqsUpTo(IdxVals, MaxLen)

\* Float attribute arrays: element i (0-based) holds base + i, in units of 1/Scale.
FloatArrays ==
    {[i \in 1 .. n |-> base + (i - 1)] : n \in 0 .. MaxLen, base \in {150, 2750}}

IntArrays == SeqsUpTo({-1, 1}, MaxLen)

PdgArrays == SeqsUpTo({11, -15}, MaxLen)

UCharArrays == SeqsUpTo({0, 5}, MaxLen)

SingleHopFns ==
    {"dxy", "dz", "charge", "isolation", "pdgid", "tau_decaymode", "tau_genmatch"}

MultiHopFns == {"tau_matching_jet_pt", "tau_matching_genjet_pt"}

---------------------------------------------------------------------------
(* Calls of the lookup lambdas *)

Call1(name, position, pair, column, outcome) ==
    /\ fn' = name
    /\ args' = [position |-> position, pair |-> pair, column |-> column]
    /\ out' = outcome
    /\ UNCHANGED <<rows, cols>>

Call_dxy ==
    /\ fn = "none"
    /\ \E position \in Positions, pair \in Pairs, column \in FloatArrays :
        Call1("dxy", position, pair, column, dxy(position, pair, column))

Call_dz ==
    /\ fn = "none"
    /\ \E position \in Positions, pair \in Pairs, column \in FloatArrays :
        Call1("dz", position, pair, column, dz(position, pair, column))

Call_charge ==
    /\ fn = "none"
    /\ \E position \in Positions, pair \in Pairs, column \in IntArrays :
        Call1("charge", position, pair, column, charge(position, pair, column))

Call_isolation ==
    /\ fn = "none"
    /\ \E position \in Positions, pair \in Pairs, column \in FloatArrays :
        Call1("isolation", position, pair, column,
              isolation(position, pair, column))

Call_pdgid ==
    /\ fn = "none"
    /\ \E position \in Positions, pair \in Pairs, column \in PdgArrays :
        Call1("pdgid", position, pair, column, pdgid(position, pair, column))

Call_tau_decaymode ==
    /\ fn = "none"
    /\ \E position \in Positions, pair \in Pairs, column \in IntArrays :
        Call1("tau_decaymode", position, pair, column,
              tau_decaymode(position, pair, column))

Call_tau_genmatch ==
    /\ fn = "none"
    /\ \E position \in Positions, pair \in Pairs, column \in UCharArrays :
        Call1("tau_genmatch", position, pair, column,
              tau_genmatch(position, pair, column))

Call_tau_matching_jet_pt ==
    /\ fn = "none"
    /\ \E position \in Positions, pair \in Pairs,
       taujets \in AssocArrays, jetpt \in FloatArrays :
        /\ fn' = "tau_matching_jet_pt"
        /\ args' = [position |-> position, pair |-> pair,
                    taujets |-> taujets, jetpt |-> jetpt]
        /\ out' = tau_matching_jet_pt(position, pair, taujets, jetpt)
        /\ UNCHANGED <<rows, cols>>

Call_tau_matching_genjet_pt ==
    /\ fn = "none"
    /\ \E position \in Positions, pair \in Pairs, taujets \in AssocArrays,
       genjets \in AssocArrays, genjetpt \in FloatArrays :
        /\ fn' = "tau_matching_genjet_pt"
        /\ args' = [position |-> position, pair |-> pair, taujets |-> taujets,
                    genjets |-> genjets, genjetpt |-> genjetpt]
        /\ out' = tau_matching_genjet_pt(position, pair, taujets, genjets,
                                         genjetpt)
        /\ UNCHANGED <<rows, cols>>

InitCall ==
    /\ fn = "none"
    /\ args = [position |-> 0]
    /\ out = NoOutcome

InitLookup ==
    /\ InitCall
    /\ rows = <<>>
    /\ cols = <<>>

NextLookup ==
    \/ Call_dxy
    \/ Call_dz
    \/ Call_charge
    \/ Call_isolation
    \/ Call_pdgid
    \/ Call_tau_decaymode
    \/ Call_tau_genmatch
    \/ Call_tau_matching_jet_pt
    \/ Call_tau_matching_genjet_pt

SpecLookup == InitLookup /\ [][NextLookup]_vars

---------------------------------------------------------------------------
(* Fixed-point arithmetic *)

RECURSIVE IsqrtBetween(_, _, _)
\* The largest r in lo .. hi with r * r <= n, by bisection.
IsqrtBetween(n, lo, hi) ==
    IF lo >= hi
    THEN lo
    ELSE LET mid == (lo + hi + 1) \div 2
         IN  IF mid * mid <= n
             THEN IsqrtBetween(n, mid, hi)
             ELSE IsqrtBetween(n, lo, mid - 1)

\* sqrt, rounded down; 46340 is the largest root of a 32-bit integer.
Isqrt(n) == IF n <= 0 THEN 0 ELSE IsqrtBetween(n, 0, IF n < 46340 THEN n ELSE 46340)

\* The product of two fixed-point reals.
Mul(a, b) == (a * b) \div Scale

---------------------------------------------------------------------------
(* ROOT::Math::PtEtaPhiMVector and the 3-vectors made from it *)

\* Directions in the transverse plane: cos(phi), sin(phi) and phi.
DirTable ==
    << [cos |-> 100,  sin |-> 0,   phi |-> 0],
       [cos |-> 28,   sin |-> 96,  phi |-> 128],
       [cos |-> -100, sin |-> 0,   phi |-> 314],
       [cos |-> -28,  sin |-> 96,  phi |-> 185],
       [cos |-> 28,   sin |-> -96, phi |-> -128],
       [cos |-> 0,    sin |-> 100, phi |-> 157] >>

\* Pseudorapidities: eta, sinh(eta) and cosh(eta).
EtaTable ==
    << [eta |-> 0,  sinh |-> 0,  cosh |-> 100],
       [eta |-> 69, sinh |-> 75, cosh |-> 125] >>

\* The vector with coordinates (pt, eta, phi, m); x, y, z are
\* Px() = pt cos(phi), Py() = pt sin(phi), Pz() = pt sinh(eta).
PtEtaPhiM(pt_, e, d, m) ==
    [pt |-> pt_, eta |-> EtaTable[e].eta, phi |-> DirTable[d].phi, m |-> m,
     x |-> Mul(pt_, DirTable[d].cos),
     y |-> Mul(pt_, DirTable[d].sin),
     z |-> Mul(pt_, EtaTable[e].sinh),
     p |-> Mul(pt_, EtaTable[e].cosh)]

\* PtEtaPhiM4D::E(): sqrt(P2 + M2), for a mass m >= 0.
Energy(v) == Isqrt(v.p * v.p + v.m * v.m)

\* LorentzVector::Vect()
Vect(v) == [x |-> v.x, y |-> v.y, z |-> v.z]

SetZ(u, z) == [u EXCEPT !.z = z]

\* DisplacementVector3D::R()
R(u) == Isqrt(u.x * u.x + u.y * u.y + u.z * u.z)

\* DisplacementVector3D::Unit(): the vector itself when its length is 0.
Unit(u) ==
    LET tot == R(u)
    IN  IF tot = 0
        THEN u
        ELSE [x |-> (u.x * Scale) \div tot,
              y |-> (u.y * Scale) \div tot,
              z |-> (u.z * Scale) \div tot]

Plus3(u, w) == [x |-> u.x + w.x, y |-> u.y + w.y, z |-> u.z + w.z]

\* DisplacementVector3D::Dot with a vector of unit scale.
Dot(u, w) == (u.x * w.x + u.y * w.y + u.z * w.z) \div Scale

\* PxPyPzE4D::M(): sqrt(t^2 - p^2), or -sqrt(p^2 - t^2) when that is negative.
CartesianM(x, y, z, t) ==
    LET mm == t * t - (x * x + y * y + z * z)
    IN  IF mm >= 0 THEN Isqrt(mm) ELSE -Isqrt(-mm)

\* LorentzVector::operator+ : the sum is formed in cartesian coordinates and
\* stored as (pt, eta, phi, m); its pt is sqrt(x^2 + y^2), never negative.
Add(v, w) ==
    LET x == v.x + w.x
        y == v.y + w.y
        z == v.z + w.z
        t == Energy(v) + Energy(w)
    IN  [pt |-> Isqrt(x * x + y * y), m |-> CartesianM(x, y, z, t),
         x |-> x, y |-> y, z |-> z]

---------------------------------------------------------------------------
(* Four-vector kinematics *)

pt(p4) == Ret(p4.pt)

eta(p4) == Ret(p4.eta)

phi(p4) == IF p4.pt < 0 THEN Ret(default_float) ELSE Ret(p4.phi)

\* A mutant of mass: the guard also rejects pt = 0.
mass_guard_le(p4) == IF p4.pt <= 0 THEN Ret(default_float) ELSE Ret(p4.m)

mass(p4) == IF p4.pt < 0 THEN Ret(default_float) ELSE Ret(p4.m)

---------------------------------------------------------------------------
(* Composite kinematics *)

\* A mutant of m_vis: the guard asks for both vectors to be invalid.
m_vis_guard_and(p4_1, p4_2) ==
    IF p4_1.pt < 0 /\ p4_2.pt < 0
    THEN Ret(default_float)
    ELSE Ret(Add(p4_1, p4_2).m)

\* A mutant of m_vis: the guard looks at the first vector only.
m_vis_guard_first(p4_1, p4_2) ==
    IF p4_1.pt < 0
    THEN Ret(default_float)
    ELSE Ret(Add(p4_1, p4_2).m)

m_vis(p4_1, p4_2) ==
    IF p4_1.pt < 0 \/ p4_2.pt < 0
    THEN Ret(default_float)
    ELSE LET dileptonsystem == Add(p4_1, p4_2)
         IN  Ret(dileptonsystem.m)

\* float alpha = 0.85
alpha == 85

\* A mutant of calculate_pzetamissvis: p2_norm is not normalised again after
\* its z component is set to 0.
calculate_pzetamissvis_p2_once(particle_1_p4, particle_2_p4, met) ==
    LET met_3dvec == SetZ(Vect(met), 0)
        p1_norm == Unit(SetZ(Unit(Vect(particle_1_p4)), 0))
        p2_norm == SetZ(Unit(Vect(particle_2_p4)), 0)
        zeta == Unit(Plus3(p1_norm, p2_norm))
        dileptonsystem == SetZ(Plus3(Vect(particle_1_p4), Vect(particle_2_p4)), 0)
        pzetaVis == Dot(dileptonsystem, zeta)
    IN  Ret(Dot(met_3dvec, zeta) - Mul(alpha, pzetaVis))

calculate_pzetamissvis(particle_1_p4, particle_2_p4, met) ==
    LET met_3dvec == SetZ(Vect(met), 0)
        p1_norm == Unit(SetZ(Unit(Vect(particle_1_p4)), 0))
        p2_norm == Unit(SetZ(Unit(Vect(particle_2_p4)), 0))
        zeta == Unit(Plus3(p1_norm, p2_norm))
        dileptonsystem == SetZ(Plus3(Vect(particle_1_p4), Vect(particle_2_p4)), 0)
        pzetaVis == Dot(dileptonsystem, zeta)
    IN  Ret(Dot(met_3dvec, zeta) - Mul(alpha, pzetaVis))

pzetamissvis(particle_1_p4, particle_2_p4, met) ==
    calculate_pzetamissvis(particle_1_p4, particle_2_p4, met)

\* vectoroperations::calculateMT: default if either vector is invalid, else
\* sqrt(2 pt_a pt_b (1 - cos(dphi))), where pt_a pt_b cos(dphi) is the
\* transverse scalar product.
calculateMT(particle, met) ==
    IF particle.pt < 0 \/ met.pt < 0
    THEN default_float
    ELSE Isqrt(2 * (particle.pt * met.pt - (particle.x * met.x + particle.y * met.y)))

mTdileptonMET(particle_1_p4, particle_2_p4, met) ==
    LET dileptonsystem == Add(particle_1_p4, particle_2_p4)
    IN  Ret(calculateMT(dileptonsystem, met))

mT(particle_p4, met) == Ret(calculateMT(particle_p4, met))

---------------------------------------------------------------------------
(* Inputs of the kinematic quantities *)

\* Transverse momenta: -10.0 marks an invalid vector.
PtVals == {-1000, 0, 2000, 3500}

MassVals == {0, 178}

FourVectors ==
    {PtEtaPhiM(pt_, e, d, m) :
        pt_ \in PtVals, e \in DOMAIN EtaTable, d \in 1 .. NDirs, m \in MassVals}

\* The missing transverse momentum: eta = 0, m = 0.
MetVectors == {PtEtaPhiM(pt_, 1, d, 0) : pt_ \in {-1000, 3000}, d \in 1 .. NDirs}

KinFns == {"pt", "eta", "phi", "mass"}

---------------------------------------------------------------------------
(* Calls of the kinematic lambdas *)

CallP4(name, p4, outcome) ==
    /\ fn' = name
    /\ args' = [position |-> 0, p4 |-> p4]
    /\ out' = outcome
    /\ UNCHANGED <<rows, cols>>

Call_pt == fn = "none" /\ \E p4 \in FourVectors : CallP4("pt", p4, pt(p4))

Call_eta == fn = "none" /\ \E p4 \in FourVectors : CallP4("eta", p4, eta(p4))

Call_phi == fn = "none" /\ \E p4 \in FourVectors : CallP4("phi", p4, phi(p4))

Call_mass == fn = "none" /\ \E p4 \in FourVectors : CallP4("mass", p4, mass(p4))

Call_m_vis ==
    /\ fn = "none"
    /\ \E p4_1 \in FourVectors, p4_2 \in FourVectors :
        /\ fn' = "m_vis"
        /\ args' = [position |-> 0, p4_1 |-> p4_1, p4_2 |-> p4_2]
        /\ out' = m_vis(p4_1, p4_2)
        /\ UNCHANGED <<rows, cols>>

Call_pzetamissvis ==
    /\ fn = "none"
    /\ \E p4_1 \in FourVectors, p4_2 \in FourVectors, met \in MetVectors :
        /\ fn' = "pzetamissvis"
        /\ args' = [position |-> 0, p4_1 |-> p4_1, p4_2 |-> p4_2, met |-> met]
        /\ out' = pzetamissvis(p4_1, p4_2, met)
        /\ UNCHANGED <<rows, cols>>

Call_mTdileptonMET ==
    /\ fn = "none"
    /\ \E p4_1 \in FourVectors, p4_2 \in FourVectors, met \in MetVectors :
        /\ fn' = "mTdileptonMET"
        /\ args' = [position |-> 0, p4_1 |-> p4_1, p4_2 |-> p4_2, met |-> met]
        /\ out' = mTdileptonMET(p4_1, p4_2, met)
        /\ UNCHANGED <<rows, cols>>

Call_mT ==
    /\ fn = "none"
    /\ \E p4 \in FourVectors, met \in MetVectors :
        /\ fn' = "mT"
        /\ args' = [position |-> 0, p4 |-> p4, met |-> met]
        /\ out' = mT(p4, met)
        /\ UNCHANGED <<rows, cols>>

InitKin ==
    /\ InitCall
    /\ rows = <<>>
    /\ cols = <<>>

NextKin ==
    \/ Call_pt
    \/ Call_eta
    \/ Call_phi
    \/ Call_mass
    \/ Call_m_vis
    \/ Call_pzetamissvis
    \/ Call_mTdileptonMET
    \/ Call_mT

SpecKin == InitKin /\ [][NextKin]_vars

---------------------------------------------------------------------------
(* The event loop: the engine calls each registered lambda once per event,  *)
(* with that event's values of the named columns, in any order.             *)

\* The output columns registered in the event loop model.
Quantities == {"dxy", "pzetamissvis"}

\* The events a dataframe is filled with.
EventSamples ==
    [pair : {<<0, 1>>, <<1, -1>>, <<0>>},
     dxycolumn : {<<150, 151>>},
     p4_1 : {PtEtaPhiM(2000, 2, 1, 178), PtEtaPhiM(-1000, 1, 2, 0)},
     p4_2 : {PtEtaPhiM(3500, 1, 2, 0)},
     met : {PtEtaPhiM(3000, 1, 3, 0)}]

\* A mutant of EventInputs: every call is handed the first event's values.
EventInputs_first(e) == rows[1]

\* The values of the input columns the engine hands to a call for event e.
EventInputs(e) == rows[e]

\* The lambda of output column q applied to event e.
Evaluate(q, e) ==
    LET in == EventInputs(e)
    IN  IF q = "dxy"
        THEN dxy(args.position, in.pair, in.dxycolumn)
        ELSE pzetamissvis(in.p4_1, in.p4_2, in.met)

\* One call: the lambda of column q runs for event e and its outcome is stored.
Define(e, q) ==
    /\ cols[e][q] = NoOutcome
    /\ cols' = [cols EXCEPT ![e][q] = Evaluate(q, e)]
    /\ UNCHANGED <<fn, args, out, rows>>

Define_dxy == \E e \in 1 .. Len(rows) : Define(e, "dxy")

Define_pzetamissvis == \E e \in 1 .. Len(rows) : Define(e, "pzetamissvis")

InitEvents ==
    /\ fn = "none"
    /\ out = NoOutcome
    /\ args \in [position : Positions]
    /\ rows \in [1 .. NEvents -> EventSamples]
    /\ cols = [e \in 1 .. NEvents |-> [q \in Quantities |-> NoOutcome]]

NextEvents ==
    \/ Define_dxy
    \/ Define_pzetamissvis

SpecEvents == InitEvents /\ [][NextEvents]_vars

---------------------------------------------------------------------------
(* Claims about the lookups, under SpecLookup *)

\* The default of the attribute type each single-hop lookup reads.
DefaultOf(name) ==
    CASE name \in {"dxy", "dz", "isolation"} -> default_float
      [] name \in {"charge", "tau_decaymode"} -> default_int
      [] name = "pdgid" -> default_pdgid
      [] name = "tau_genmatch" -> default_uchar

\* i addresses an element of arr (0-based).
Addresses(i, arr) == i \in 0 .. Len(arr) - 1

\* C1: for a pair p that has an entry at position, every single-hop lookup (dxy,
\* dz, charge, isolation, pdgid, tau::decaymode, tau::genmatch) over an attribute
\* array a returns a[p[position]] when 0 <= p[position] < len(a), and the default
\* of a's attribute type otherwise (a negative index and the empty array included).
C1_SingleHopLookup ==
    (fn \in SingleHopFns /\ args.position + 1 \in DOMAIN args.pair) =>
        LET idx == args.pair[args.position + 1]
            a   == args.column
        IN  /\ out.kind = "return"
            /\ Addresses(idx, a) => out.val = a[idx + 1]
            /\ ~Addresses(idx, a) => out.val = DefaultOf(fn)

\* C1 witness: pdgid read through the index -1 of a non-empty array gives
\* default_pdgid.
C1_Witness ==
    /\ fn = "pdgid"
    /\ args.position = 1
    /\ Len(args.pair) = 2
    /\ args.pair[2] = -1
    /\ Len(args.column) > 0
    /\ out = Ret(default_pdgid)

\* C2: a lookup (single-hop or multi-hop) never ends in an exception, whatever the
\* length of the pair: it always returns a value.
C2_LookupNeverThrows ==
    fn \in SingleHopFns \cup MultiHopFns => out.kind = "return"

\* The chain of tau_matching_jet_pt breaks: the tau index does not address
\* taujets, or the jet index found there is -1 or does not address jetpt.
Broken2(a) ==
    LET t == a.pair[a.position + 1]
    IN  \/ ~Addresses(t, a.taujets)
        \/ ~Addresses(a.taujets[t + 1], a.jetpt)

\* The chain of tau_matching_genjet_pt breaks at one of its three hops.
Broken3(a) ==
    LET t == a.pair[a.position + 1]
    IN  \/ ~Addresses(t, a.taujets)
        \/ ~Addresses(a.taujets[t + 1], a.genjets)
        \/ ~Addresses(a.genjets[a.taujets[t + 1] + 1], a.genjetpt)

\* C3: in tau::matching_jet_pt and tau::matching_genjet_pt, when an intermediate
\* association is -1 or out of range for the next array, the result is
\* default_float, whatever the later arrays hold.
C3_BrokenChainDefaults ==
    /\ (/\ fn = "tau_matching_jet_pt"
        /\ args.position + 1 \in DOMAIN args.pair
        /\ Broken2(args)) => out = Ret(default_float)
    /\ (/\ fn = "tau_matching_genjet_pt"
        /\ args.position + 1 \in DOMAIN args.pair
        /\ Broken3(args)) => out = Ret(default_float)

\* C3 witness: the tau has a jet, the jet has no generator jet (-1), the
\* generator-jet pt array is not empty, and the result is default_float.
C3_Witness ==
    /\ fn = "tau_matching_genjet_pt"
    /\ args.position + 1 \in DOMAIN args.pair
    /\ LET t == args.pair[args.position + 1]
       IN  /\ Addresses(t, args.taujets)
           /\ Addresses(args.taujets[t + 1], args.genjets)
           /\ args.genjets[args.taujets[t + 1] + 1] = -1
    /\ Len(args.genjetpt) = MaxLen
    /\ out = Ret(default_float)


---------------------------------------------------------------------------
(* Claims about the kinematic quantities, under SpecKin *)

\* C4: pzetamissvis returns default_float whenever particle 1 or particle 2 is
\* an invalid four-vector (pt < 0).
C4_PzetaDefaultOnInvalid ==
    (fn = "pzetamissvis" /\ (args.p4_1.pt < 0 \/ args.p4_2.pt < 0)) =>
        out = Ret(default_float)

\* C5: mT returns default_float when the particle or the met is invalid, and
\* mTdileptonMET returns default_float when v1, v2 or the met is invalid.
C5_MTDefaultOnInvalid ==
    /\ (fn = "mT" /\ (args.p4.pt < 0 \/ args.met.pt < 0)) =>
           out = Ret(default_float)
    /\ (fn = "mTdileptonMET"
        /\ (args.p4_1.pt < 0 \/ args.p4_2.pt < 0 \/ args.met.pt < 0)) =>
           out = Ret(default_float)

\* C6: m_vis(v1, v2) returns default_float if v1.pt < 0 or v2.pt < 0, and
\* otherwise the mass M of the sum v1 + v2: M is the root (rounded down) of
\* (E1 + E2)^2 - |p1 + p2|^2, rebuilt here from the energies and momenta.
C6_VisibleMass ==
    fn = "m_vis" =>
        LET v1 == args.p4_1
            v2 == args.p4_2
            t  == Energy(v1) + Energy(v2)
            px == v1.x + v2.x
            py == v1.y + v2.y
            pz == v1.z + v2.z
            mm == t * t - px * px - py * py - pz * pz
            M  == out.val
        IN  /\ out.kind = "return"
            /\ (v1.pt < 0 \/ v2.pt < 0) => M = default_float
            /\ (v1.pt >= 0 /\ v2.pt >= 0 /\ mm >= 0) =>
                   M >= 0 /\ M * M <= mm /\ mm < (M + 1) * (M + 1)
            /\ (v1.pt >= 0 /\ v2.pt >= 0 /\ mm < 0) =>
                   M <= 0 /\ M * M <= -mm /\ -mm < (1 - M) * (1 - M)

\* C6 witness: two massless 20 GeV vectors back to back have visible mass 40.
C6_Witness ==
    /\ fn = "m_vis"
    /\ args.p4_1 = PtEtaPhiM(2000, 1, 1, 0)
    /\ args.p4_2 = PtEtaPhiM(2000, 1, 3, 0)
    /\ out = Ret(4000)

\* C7: for a four-vector v with pt < 0, phi(v) and mass(v) are default_float,
\* pt(v) is v's raw negative pt and eta(v) is v's eta; for v with pt >= 0,
\* phi(v) and mass(v) are v's own phi and mass.
C7_InvalidVectorKinematics ==
    fn \in KinFns =>
        LET v == args.p4
        IN  /\ out.kind = "return"
            /\ v.pt < 0 =>
                /\ fn \in {"phi", "mass"} => out.val = default_float
                /\ fn = "pt" => out.val = v.pt
                /\ fn = "eta" => out.val = v.eta
            /\ v.pt >= 0 =>
                /\ fn = "phi" => out.val = v.phi
                /\ fn = "mass" => out.val = v.m

\* C7 witness: mass of an invalid vector whose own mass is 1.78.
C7_Witness ==
    /\ fn = "mass"
    /\ args.p4.pt < 0
    /\ args.p4.m = 178
    /\ out = Ret(default_float)

\* C9: m_vis is symmetric: m_vis(v1, v2) = m_vis(v2, v1), for valid vectors
\* and for invalid ones (default for both orders).
C9_MvisSymmetric ==
    fn = "m_vis" => out = m_vis(args.p4_2, args.p4_1)

\* C9 witness: a valid and an invalid vector, in this order, give the default.
C9_Witness ==
    /\ fn = "m_vis"
    /\ args.p4_1.pt > 0
    /\ args.p4_2.pt < 0
    /\ out = Ret(default_float)

\* C10: pzetamissvis(v1, v2, met) = pzetamissvis(v2, v1, met).
C10_PzetaSwap ==
    fn = "pzetamissvis" =>
        out = pzetamissvis(args.p4_2, args.p4_1, args.met)

\* C10 witness: two valid particles of different pt, direction and eta, and a
\* result that is not 0.
C10_Witness ==
    /\ fn = "pzetamissvis"
    /\ args.p4_1.pt = 2000
    /\ args.p4_2.pt = 3500
    /\ args.p4_1.phi # args.p4_2.phi
    /\ args.p4_1.eta # args.p4_2.eta
    /\ args.met.pt > 0
    /\ out.kind = "return"
    /\ out.val # 0

---------------------------------------------------------------------------
(* Claims about the event loop, under SpecEvents *)

---------------------------------------------------------------------------
(* Claim about the composition of the hops, under SpecLookup *)

\* at(arr, i, d) of the claim: arr[i] if 0 <= i < len(arr), else d.
at(arr, i, d) == IF Addresses(i, arr) THEN arr[i + 1] ELSE d

\* C11: for a pair that has an entry at position, matching_jet_pt equals
\* at(jetpt, at(taujets, pair[position], -1), default_float) and
\* matching_genjet_pt equals
\* at(genjetpt, at(genjets, at(taujets, pair[position], -1), -1), default_float);
\* when every hop is in range the result is the addressed pt entry itself,
\* jetpt[taujets[pair[position]]] or genjetpt[genjets[taujets[pair[position]]]].
C11_HopsCompose ==
    (fn \in MultiHopFns /\ args.position + 1 \in DOMAIN args.pair) =>
        LET t == args.pair[args.position + 1]
        IN  /\ fn = "tau_matching_jet_pt" =>
                /\ out = Ret(at(args.jetpt, at(args.taujets, t, -1), default_float))
                /\ ~Broken2(args) =>
                       out.val = args.jetpt[args.taujets[t + 1] + 1]
            /\ fn = "tau_matching_genjet_pt" =>
                /\ out = Ret(at(args.genjetpt,
                                at(args.genjets, at(args.taujets, t, -1), -1),
                                default_float))
                /\ ~Broken3(args) =>
                       out.val =
                           args.genjetpt[args.genjets[args.taujets[t + 1] + 1] + 1]

\* C11 witness: a three-hop chain with every hop in range, through three
\* different indices' worth of arrays, ending in a pt entry, not the default.
C11_Witness ==
    /\ fn = "tau_matching_genjet_pt"
    /\ args.position = 1
    /\ Len(args.pair) = 2
    /\ args.pair[2] = 1
    /\ Len(args.taujets) = 2
    /\ args.taujets[2] = 0
    /\ Len(args.genjets) >= 1
    /\ args.genjets[1] = 1
    /\ Len(args.genjetpt) = 2
    /\ out = Ret(args.genjetpt[2])
    /\ out.val # default_float

=============================================================================
